---------------------------- MODULE Spec2Model ----------------------------
(***************************************************************************)
(* Magic Formula trader: the ranking function, the buy cycle and the sell  *)
(* cycle of src/unnamed/part_002 (buyPositions.js and sellPositions.js)    *)
(* with the holdings tables they write.                                    *)
(*                                                                         *)
(* Specifications:                                                         *)
(*   SpecRank  computeMagicFormulaRankings applied to bounded inputs;      *)
(*   SpecBuy   buy cycles over a range of accounts and configurations;     *)
(*   SpecSell  sell cycles over a database file that already holds rows;   *)
(*   Spec      buy cycles and sell cycles over the database files, the     *)
(*             broker and the clock;                                       *)
(*   SpecServer  src/src/server.js: start, cron callbacks, HTTP requests;  *)
(*   SpecOverlap two runs of the buy cycle at the same time.               *)
(***************************************************************************)
EXTENDS Integers, Sequences, FiniteSets

VARIABLES
  \* ---- ranking (SpecRank)
  metrics,      \* the array handed to computeMagicFormulaRankings: its objects
  ranked,       \* the array it returns: references (indices) into metrics
  rpc,          \* "ready" before the call, "done" after it
  \* ---- trading (SpecBuy, SpecSell, Spec)
  env,          \* process.env as parsed by the scripts
  world,        \* what the broker and the quote service may answer
  now,          \* the clock, in ticks
  holdings,     \* database file -> rows of its holdings table
  transactions, \* database file -> rows of its transactions table
  orders,       \* job -> the orders the job's run has submitted (until it exits)
  emails,       \* job -> the notifications the job's run has sent (until it exits)
  log,          \* job -> the line logged when an iteration or the run ends
  bpc,          \* buy run: position
  topStocks,    \* buy run: the symbols still to process (head = current)
  budget,       \* buy run: the account snapshot and the budget per stock
  buy,          \* buy run: the stock being processed [symbol, qty, price]
  spc,          \* sell run: position
  positions,    \* sell run: the broker positions still to process (head = current)
  pos,          \* sell run: the position being processed
  decision,     \* sell run: the last sell/hold decision taken
  \* ---- the server (SpecServer)
  server,       \* NODE_ENV, the cron jobs, the scripts executed, the requests served
  \* ---- a second buy run (SpecOverlap)
  other         \* the locals of the buy run that is not taking the step

rankVars  == <<metrics, ranked, rpc>>
buyVars   == <<bpc, topStocks, budget, buy>>
sellVars  == <<spc, positions, pos, decision>>
fixedVars == <<env, world, transactions, server, other>>
tradeVars == <<fixedVars, now, holdings, orders, emails, log, buyVars, sellVars>>
vars      == <<rankVars, tradeVars>>

(***************************************************************************)
(* Bounds                                                                  *)
(***************************************************************************)
MaxMetrics  == 2   \* longest enumerated input of the ranking function
TicksPerDay == 2   \* clock resolution: ticks in one day
MaxSeedRows == 2   \* rows the sell script's database file holds at the start
MaxBuyRows  == 1   \* rows the buy script's database file may grow to
MaxExecuted == 2   \* scripts the server executes in one behaviour

(***************************************************************************)
(* JavaScript values: a number, NaN, or null/undefined (missing).          *)
(***************************************************************************)
Num(n) == <<"num", n>>
NaN    == <<"NaN", 0>>
NULL   == <<"null", 0>>

IsNum(v) == v[1] = "num"
IsNaN(v) == v[1] = "NaN"
Val(v)   == v[2]

\* a != null  (loose inequality: false for null and for undefined only)
NotNullish(v) == v # NULL

\* the truthiness of a number-or-null: false for null, NaN and 0
Truthy(v) == IsNum(v) /\ Val(v) # 0

\* a - b on numbers; NaN when either side is NaN
JsSub(a, b) == IF IsNum(a) /\ IsNum(b) THEN Num(Val(a) - Val(b)) ELSE NaN

\* a > b and a >= b : false when either side is NaN
JsGt(a, b) == IsNum(a) /\ IsNum(b) /\ Val(a) > Val(b)
JsGe(a, b) == IsNum(a) /\ IsNum(b) /\ Val(a) >= Val(b)

\* Array.prototype.sort reads the comparator's result v: NaN counts as +0.
SortCompare(v) == IF IsNaN(v) THEN 0 ELSE Val(v)

(***************************************************************************)
(* Array.prototype.sort (ES2019: stable).  arr is a sequence of distinct   *)
(* references, cmp[a, b] the comparator's number.                          *)
(***************************************************************************)
Range(s) == {s[i] : i \in DOMAIN s}

Reorderings(s) ==
  {p \in [DOMAIN s -> Range(s)] : \A i, j \in DOMAIN s : i # j => p[i] # p[j]}

\* the place of arr[i] after a stable sort: behind everything that sorts
\* before it, and behind the equal elements that came earlier
StablePlace(arr, i, cmp) ==
  1 + Cardinality({j \in DOMAIN arr : cmp[arr[j], arr[i]] < 0})
    + Cardinality({j \in DOMAIN arr : j < i /\ cmp[arr[j], arr[i]] = 0})

StableSort(arr, cmp) ==
  [p \in DOMAIN arr |->
     arr[CHOOSE i \in DOMAIN arr : StablePlace(arr, i, cmp) = p]]

\* A comparator is consistent when it orders the elements as a total preorder.
Consistent(arr, cmp) ==
  \A a, b, c \in Range(arr) :
    /\ cmp[a, a] = 0
    /\ (cmp[a, b] < 0) = (cmp[b, a] > 0)
    /\ (cmp[a, b] = 0 /\ cmp[b, c] = 0) => cmp[a, c] = 0
    /\ (cmp[a, b] < 0 /\ cmp[b, c] <= 0) => cmp[a, c] < 0
    /\ (cmp[a, b] <= 0 /\ cmp[b, c] < 0) => cmp[a, c] < 0

\* The orders sort may produce: the stable order for a consistent
\* comparator, an implementation-defined order of the same elements
\* otherwise (a NaN key makes b.key - a.key inconsistent).
SortOrders(arr, cmp) ==
  IF Consistent(arr, cmp) THEN {StableSort(arr, cmp)} ELSE Reorderings(arr)

(***************************************************************************)
(* computeMagicFormulaRankings                                             *)
(***************************************************************************)
Indices(s) == [i \in DOMAIN s |-> i]

\* the index of forEach used as the rank, without the + 1
PlaceFromZero(s, x) == (CHOOSE k \in DOMAIN s : s[k] = x) - 1

\* the place of x in the sequence s of distinct elements (index + 1)
PlaceIn(s, x) == CHOOSE k \in DOMAIN s : s[k] = x

\* a filter on truthiness: (m) => m.returnOnCapital && m.earningsYield
FilterFalsy(ms) ==
  LET Keep(i) == Truthy(ms[i].returnOnCapital) /\ Truthy(ms[i].earningsYield)
  IN  SelectSeq(Indices(ms), Keep)

\* validMetrics: the references to the objects that pass the filter
validMetrics(ms) ==
  LET Keep(i) == NotNullish(ms[i].returnOnCapital) /\ NotNullish(ms[i].earningsYield)
  IN  SelectSeq(Indices(ms), Keep)

\* the two descending sorts
sortedByEarningsYield(ms) ==
  LET cmp == [a \in DOMAIN ms, b \in DOMAIN ms |->
                SortCompare(JsSub(ms[b].earningsYield, ms[a].earningsYield))]
  IN  SortOrders(validMetrics(ms), cmp)

sortedByROC(ms) ==
  LET cmp == [a \in DOMAIN ms, b \in DOMAIN ms |->
                SortCompare(JsSub(ms[b].returnOnCapital, ms[a].returnOnCapital))]
  IN  SortOrders(validMetrics(ms), cmp)

\* rocRank taken from the place in the input instead of the sorted array
RanksFromInputPlace(ms, eyOrder, rocOrder) ==
  [i \in DOMAIN ms |->
     IF i \in Range(validMetrics(ms))
     THEN [ms[i] EXCEPT !.eyRank = PlaceIn(eyOrder, i),
                        !.rocRank = PlaceIn(validMetrics(ms), i),
                        !.combinedRank = PlaceIn(eyOrder, i)
                                           + PlaceIn(validMetrics(ms), i)]
     ELSE ms[i]]

\* the third loop assigning m.combinedRank = m.eyRank
NoCombine(ms, eyOrder, rocOrder) ==
  [i \in DOMAIN ms |->
     IF i \in Range(validMetrics(ms))
     THEN [ms[i] EXCEPT !.eyRank = PlaceIn(eyOrder, i),
                        !.rocRank = PlaceIn(rocOrder, i),
                        !.combinedRank = PlaceIn(eyOrder, i)]
     ELSE ms[i]]

\* the objects after the three forEach loops, given the two sorted arrays
AssignRanks(ms, eyOrder, rocOrder) ==
  [i \in DOMAIN ms |->
     IF i \in Range(validMetrics(ms))
     THEN [ms[i] EXCEPT !.eyRank = PlaceIn(eyOrder, i),
                        !.rocRank = PlaceIn(rocOrder, i),
                        !.combinedRank = PlaceIn(eyOrder, i) + PlaceIn(rocOrder, i)]
     ELSE ms[i]]

\* the final sort done by a sort that is not stable
UnstableByCombinedRank(ms) ==
  LET arr == validMetrics(ms)
      Cmp(a, b) == ms[a].combinedRank - ms[b].combinedRank
      Place(i) ==
        1 + Cardinality({j \in DOMAIN arr : Cmp(arr[j], arr[i]) < 0})
          + Cardinality({j \in DOMAIN arr : j > i /\ Cmp(arr[j], arr[i]) = 0})
  IN  [p \in DOMAIN arr |-> arr[CHOOSE i \in DOMAIN arr : Place(i) = p]]

\* validMetrics.sort((a, b) => a.combinedRank - b.combinedRank): ranks are
\* integers, so the comparator is consistent and the stable order is the result
sortedByCombinedRank(ms) ==
  LET cmp == [a \in DOMAIN ms, b \in DOMAIN ms |->
                ms[a].combinedRank - ms[b].combinedRank]
  IN  StableSort(validMetrics(ms), cmp)

\* the whole function: the objects as it leaves them, and the array returned
computeMagicFormulaRankings(ms, eyOrder, rocOrder) ==
  LET after == AssignRanks(ms, eyOrder, rocOrder)
  IN  [objects |-> after, result |-> sortedByCombinedRank(after)]

(***************************************************************************)
(* The database files and the holdings table                               *)
(***************************************************************************)
\* path.join(dir, rel): ".." drops the last segment of what precedes it
RECURSIVE pathJoin(_, _)
pathJoin(dir, rel) ==
  IF rel = <<>> THEN dir
  ELSE IF Head(rel) = ".."
       THEN pathJoin(SubSeq(dir, 1, Len(dir) - 1), Tail(rel))
       ELSE pathJoin(Append(dir, Head(rel)), Tail(rel))

\* the server runs both scripts as ./src/scripts/<name>.js with the
\* repository root as working directory
RootDir    == <<>>
ScriptsDir == <<"src", "scripts">>

BuyDb    == pathJoin(ScriptsDir, <<"..", "database", "portfolio.db">>)
SellDb   == pathJoin(ScriptsDir, <<"portfolio.db">>)
ServerDb == pathJoin(RootDir, <<"database", "portfolio.db">>)
DbFiles  == {BuyDb, SellDb, ServerDb}

Symbols == {"A", "B"}
Jobs    == {"buy", "sell"}

\* Date.prototype.toISOString: fixed-width text, one digit per place
toISOString(t) == <<t \div 100, (t \div 10) % 10, t % 10>>

\* new Date(text)
parseDate(text) == text[1] * 100 + text[2] * 10 + text[3]

\* SQLite compares TEXT left to right (BINARY collation)
TextLess(a, b) ==
  \E k \in 1..Len(a) :
    /\ k <= Len(b)
    /\ \A j \in 1..(k - 1) : a[j] = b[j]
    /\ a[k] < b[k]

\* a row of the holdings table: the columns the scripts write;
\* acquisition_price, a column of the server's table only, which no
\* statement sets (reading it off a row gives a missing value); and
\* updates, the number of UPDATEs that changed the row
Holding(symbol, qty, date, status) ==
  [symbol |-> symbol, quantity |-> qty, acquisition_date |-> toISOString(date),
   acquisition_price |-> NULL, status |-> status, updates |-> 0]

\* INSERT INTO holdings (symbol, quantity, acquisition_date, status)
\*   VALUES (?, ?, ?, 'active')
insertHolding(rows, symbol, qty, date) ==
  Append(rows, Holding(symbol, qty, date, "active"))

\* the query without AND status = 'active'
AnyStatusDate(rows, symbol) ==
  LET match == {i \in DOMAIN rows : rows[i].symbol = symbol}
  IN  IF match = {} THEN NULL
      ELSE LET first == CHOOSE i \in match : \A j \in match :
                          ~TextLess(rows[j].acquisition_date, rows[i].acquisition_date)
           IN  Num(parseDate(rows[first].acquisition_date))

\* the query with ORDER BY acquisition_date DESC
LatestDate(rows, symbol) ==
  LET match == {i \in DOMAIN rows : rows[i].symbol = symbol /\ rows[i].status = "active"}
  IN  IF match = {} THEN NULL
      ELSE LET first == CHOOSE i \in match : \A j \in match :
                          ~TextLess(rows[i].acquisition_date, rows[j].acquisition_date)
           IN  Num(parseDate(rows[first].acquisition_date))

\* SELECT acquisition_date FROM holdings WHERE symbol = ? AND status = 'active'
\*   ORDER BY acquisition_date ASC LIMIT 1       (NULL: no row)
getAcquisitionDateFromDB(rows, symbol) ==
  LET match == {i \in DOMAIN rows : rows[i].symbol = symbol /\ rows[i].status = "active"}
  IN  IF match = {} THEN NULL
      ELSE LET first == CHOOSE i \in match : \A j \in match :
                          ~TextLess(rows[j].acquisition_date, rows[i].acquisition_date)
           IN  Num(parseDate(rows[first].acquisition_date))

\* an update of the earliest active lot of the symbol only
MarkEarliestLotSold(rows, symbol) ==
  LET match == {i \in DOMAIN rows : rows[i].symbol = symbol /\ rows[i].status = "active"}
  IN  IF match = {} THEN rows
      ELSE LET first == CHOOSE i \in match : \A j \in match :
                          \/ TextLess(rows[i].acquisition_date, rows[j].acquisition_date)
                          \/ (/\ rows[i].acquisition_date = rows[j].acquisition_date
                              /\ i <= j)
           IN  [rows EXCEPT ![first].status = "sold", ![first].updates = @ + 1]

\* DELETE FROM holdings WHERE symbol = ? AND status = 'active'
DeleteHoldings(rows, symbol) ==
  LET Keep(r) == ~(r.symbol = symbol /\ r.status = "active")
  IN  SelectSeq(rows, Keep)

\* UPDATE holdings SET status = 'sold' WHERE symbol = ? AND status = 'active'
updateHoldingStatus(rows, symbol) ==
  [i \in DOMAIN rows |->
     IF rows[i].symbol = symbol /\ rows[i].status = "active"
     THEN [rows[i] EXCEPT !.status = "sold", !.updates = @ + 1]
     ELSE rows[i]]

(***************************************************************************)
(* The clock and the configuration                                         *)
(***************************************************************************)
StartNow == 364 * TicksPerDay
EndNow   == StartNow + TicksPerDay

\* NUMBER_OF_STOCKS_PER_BATCH, MAX_TOTAL_INVESTMENT_PERCENT (a fraction),
\* SELL_UNPROFITABLE_AFTER_DAYS, SELL_PROFITABLE_AFTER_DAYS after parseInt /
\* parseFloat
Thresholds == {<<365, 365>>, <<364, 365>>}
BatchSizes == {1, 2}

Envs ==
  {[batch |-> b, percentNum |-> 1, percentDen |-> 2,
    unprofitableDays |-> Num(t[1]), profitableDays |-> Num(t[2])] :
     b \in BatchSizes, t \in Thresholds}

(***************************************************************************)
(* The sell cycle: managePortfolio                                         *)
(***************************************************************************)
\* Math.floor((today - acquisitionDate) / (1000 * 60 * 60 * 24))
holdingDuration(today, acquisitionDate) ==
  (today - acquisitionDate) \div TicksPerDay

\* currentPrice >= entryPrice
ProfitableOrEqual(currentPrice, entryPrice) == JsGe(currentPrice, entryPrice)

\* isProfitable = currentPrice > entryPrice
isProfitable(currentPrice, entryPrice) == JsGt(currentPrice, entryPrice)

\* the criteria with > in place of >=
ShouldSellStrict(profitable, duration, e) ==
  IF ~profitable /\ JsGt(Num(duration), e.unprofitableDays) THEN TRUE
  ELSE IF profitable /\ JsGt(Num(duration), e.profitableDays) THEN TRUE
  ELSE FALSE

\* the if / else-if that sets shouldSell
shouldSell(profitable, duration, e) ==
  IF ~profitable /\ JsGe(Num(duration), e.unprofitableDays) THEN TRUE
  ELSE IF profitable /\ JsGe(Num(duration), e.profitableDays) THEN TRUE
  ELSE FALSE

\* the quantity of the earliest active row of the symbol
LotQty(position, rows) ==
  LET match == {i \in DOMAIN rows : /\ rows[i].symbol = position.symbol
                                    /\ rows[i].status = "active"}
      first == CHOOSE i \in match : \A j \in match :
                 ~TextLess(rows[j].acquisition_date, rows[i].acquisition_date)
  IN  Num(rows[first].quantity)

\* the quantity of the order placeSellOrder submits: parseFloat(position.qty)
sellQty(position, rows) == position.qty

\* what alpaca.getPositions() may return: one position per symbol held
PositionLists ==
  {<<>>} \cup {<<s>> : s \in Symbols}
         \cup {p \in Symbols \X Symbols : p[1] # p[2]}

PositionQtys  == {Num(1), Num(2)}
EntryPrices   == {Num(2)}
CurrentPrices == {Num(1), Num(2), Num(3), NaN}

\* the rows a database file may hold when the first modelled run starts
SeedDates == {0, 1}
SeedQtys  == {1}

SeedRows ==
  {Holding(s, q, d, st) :
     s \in Symbols, q \in SeedQtys, d \in SeedDates, st \in {"active", "sold"}}

SeedLedgers == UNION {[1..n -> SeedRows] : n \in 0..MaxSeedRows}

\* alpaca.createOrder is called: the order is outstanding until the broker
\* answers.  price is the price the cycle holds for the order (it is not
\* part of the request)
createOrder(sent, symbol, qty, price, side) ==
  Append(sent, [symbol |-> symbol, qty |-> qty, price |-> price,
                side |-> side, status |-> "pending"])

\* the promise of createOrder settles: "accepted" or "rejected"
\* the answer of the broker is not awaited
SettleNothing(sent, status) == sent

settleOrder(sent, status) == [sent EXCEPT ![Len(sent)].status = status]

\* managePortfolio starts: getPositions
SellStart ==
  /\ spc = "idle"
  /\ bpc = "idle"
  /\ \/ \E ps \in world.positions \ {<<>>} :          \* positions returned
          /\ positions' = ps
          /\ spc' = "loop"
          /\ log' = [log EXCEPT !["sell"] = ""]
     \/ /\ positions' = <<>>                           \* the call failed: return
        /\ spc' = "done"
        /\ log' = [log EXCEPT !["sell"] = "Error fetching positions"]
     \/ /\ positions' = <<>>                           \* none: return
        /\ spc' = "done"
        /\ log' = [log EXCEPT !["sell"] = "No open positions found."]
  /\ UNCHANGED <<fixedVars, now, holdings, orders, emails, pos, decision,
                 buyVars, rankVars>>

\* for (const position of positions): the loop reads the next position, or
\* ends
SellNext ==
  /\ spc = "loop"
  /\ \/ /\ positions = <<>>
        /\ spc' = "done"
        /\ log' = [log EXCEPT !["sell"] = "Portfolio Management completed."]
        /\ UNCHANGED pos
     \/ /\ positions # <<>>
        /\ \E q \in PositionQtys, e \in EntryPrices, c \in CurrentPrices :
             pos' = [symbol |-> Head(positions), qty |-> q, entryPrice |-> e,
                     currentPrice |-> c, isProfitable |-> isProfitable(c, e)]
        /\ spc' = "lookup"
        /\ UNCHANGED log
  /\ UNCHANGED <<fixedVars, now, holdings, orders, emails, positions, decision,
                 buyVars, rankVars>>

\* the iteration of the current position ends (continue, or the end of the body)
SellContinue ==
  /\ positions' = Tail(positions)
  /\ pos' = <<>>
  /\ decision' = <<>>
  /\ spc' = "loop"

\* the iteration logs the line that ends it; the position is kept until the
\* loop moves on
SellEnds(line) ==
  /\ log' = [log EXCEPT !["sell"] = line]
  /\ spc' = "skip"
  /\ UNCHANGED <<positions, pos>>

\* await getAcquisitionDateFromDB(symbol), then today, holdingDuration and
\* the sell criteria
SellLookup ==
  /\ spc = "lookup"
  /\ \/ /\ SellEnds("Error fetching acquisition date")    \* the query failed
        /\ UNCHANGED decision
     \/ LET acquisitionDate == getAcquisitionDateFromDB(holdings[SellDb], pos.symbol)
        IN  IF ~IsNum(acquisitionDate)
            THEN /\ SellEnds("Acquisition date not found. Skipping...")
                 /\ UNCHANGED decision
            ELSE LET duration == holdingDuration(now, Val(acquisitionDate))
                 IN  /\ decision' =
                          [acquisitionDate |-> Val(acquisitionDate),
                           today |-> now,
                           holdingDuration |-> duration,
                           shouldSell |-> shouldSell(pos.isProfitable, duration, env)]
                     /\ spc' = "decided"
                     /\ UNCHANGED <<positions, pos, log>>
  /\ UNCHANGED <<fixedVars, now, holdings, orders, emails, buyVars, rankVars>>

\* if (shouldSell) placeSellOrder(...), which calls createOrder; else log
SellDecided ==
  /\ spc = "decided"
  /\ IF decision.shouldSell
     THEN /\ orders' = [orders EXCEPT !["sell"] =
                          createOrder(@, pos.symbol, sellQty(pos, holdings[SellDb]),
                                      pos.currentPrice, "sell")]
          /\ spc' = "order"
          /\ UNCHANGED <<positions, pos, log>>
     ELSE /\ SellEnds("Position does not meet sell criteria")
          /\ UNCHANGED orders
  /\ UNCHANGED <<fixedVars, now, holdings, emails, decision, buyVars, rankVars>>

\* placeSellOrder: the broker answers createOrder
SellOrder ==
  /\ spc = "order"
  /\ \/ /\ orders' = [orders EXCEPT !["sell"] = settleOrder(@, "accepted")]
        /\ spc' = "update"
        /\ UNCHANGED <<positions, pos, log>>
     \/ /\ orders' = [orders EXCEPT !["sell"] = settleOrder(@, "rejected")]
        /\ SellEnds("Failed to place sell order")      \* caught and logged
  /\ UNCHANGED <<fixedVars, now, holdings, emails, decision, buyVars, rankVars>>

\* a failed write makes the run take the accepted order back
SellUpdateUndoesOrder ==
  /\ spc = "update"
  /\ \/ /\ holdings' = [holdings EXCEPT ![SellDb] =
                          updateHoldingStatus(@, pos.symbol)]
        /\ spc' = "email"
        /\ UNCHANGED <<positions, pos, log, orders>>
     \/ /\ SellEnds("Failed to place sell order")
        /\ orders' = [orders EXCEPT !["sell"] = settleOrder(@, "cancelled")]
        /\ UNCHANGED holdings
  /\ UNCHANGED <<fixedVars, now, emails, decision, buyVars, rankVars>>

\* placeSellOrder: await updateHoldingStatus
SellUpdate ==
  /\ spc = "update"
  /\ \/ /\ holdings' = [holdings EXCEPT ![SellDb] =
                          updateHoldingStatus(@, pos.symbol)]
        /\ spc' = "email"
        /\ UNCHANGED <<positions, pos, log>>
     \/ /\ SellEnds("Failed to place sell order")      \* the write failed: caught
        /\ UNCHANGED holdings
  /\ UNCHANGED <<fixedVars, now, orders, emails, decision, buyVars, rankVars>>

\* an e-mail that cannot be sent ends the run
SellEmailFailureEndsRun ==
  /\ spc = "email"
  /\ \/ /\ emails' = [emails EXCEPT !["sell"] =
                        Append(@, [symbol |-> pos.symbol, qty |-> pos.qty,
                                   price |-> pos.currentPrice])]
        /\ SellContinue
        /\ UNCHANGED log
     \/ /\ UNCHANGED <<emails, positions, pos, decision>>
        /\ spc' = "done"
        /\ log' = [log EXCEPT !["sell"] = "Portfolio Management completed."]
  /\ UNCHANGED <<fixedVars, now, holdings, orders, buyVars, rankVars>>

\* placeSellOrder: await sendEmail  (a failure is logged inside sendEmail)
SellEmail ==
  /\ spc = "email"
  /\ \/ emails' = [emails EXCEPT !["sell"] =
                     Append(@, [symbol |-> pos.symbol, qty |-> pos.qty,
                                price |-> pos.currentPrice])]
     \/ UNCHANGED emails
  /\ SellContinue
  /\ UNCHANGED <<fixedVars, now, holdings, orders, log, buyVars, rankVars>>

\* continue: the loop moves on to the next position
SellSkip ==
  /\ spc = "skip"
  /\ SellContinue
  /\ log' = [log EXCEPT !["sell"] = ""]
  /\ UNCHANGED <<fixedVars, now, holdings, orders, emails, buyVars, rankVars>>

\* managePortfolio has returned and the process ends: what the run has
\* submitted, sent and logged is no longer observed
SellExit ==
  /\ spc = "done"
  /\ spc' = "idle"
  /\ orders' = [orders EXCEPT !["sell"] = <<>>]
  /\ emails' = [emails EXCEPT !["sell"] = <<>>]
  /\ log' = [log EXCEPT !["sell"] = ""]
  /\ UNCHANGED <<fixedVars, now, holdings, positions, pos, decision, buyVars,
                 rankVars>>

(***************************************************************************)
(* The buy cycle: executeMagicFormulaStrategy                              *)
(***************************************************************************)
FetchBatchSize == 50

MetricOf(symbol, roc, ey) ==
  [symbol |-> symbol, returnOnCapital |-> roc, earningsYield |-> ey,
   eyRank |-> 0, rocRank |-> 0, combinedRank |-> 0]

\* what fetchNYSEStocks may return ([] also when the request fails)
ScreenResults ==
  {<<>>} \cup {<<s>> : s \in Symbols}
         \cup {p \in Symbols \X Symbols : p[1] # p[2]}

\* the answer to one key-metrics request: the request failed, no company
\* data (both values null), or parseFloat of roic and earningsYield
FetchedValues == {NaN, Num(0), Num(1), Num(2)}

Responses ==
  {[failed |-> TRUE, roic |-> NULL, earningsYield |-> NULL],
   [failed |-> FALSE, roic |-> NULL, earningsYield |-> NULL]}
  \cup {[failed |-> FALSE, roic |-> r, earningsYield |-> y] :
          r \in FetchedValues, y \in FetchedValues}

\* the orders in which the requests may complete: the symbols of one batch
\* of FetchBatchSize in any order, batch after batch
CompletionOrders(symbols) ==
  {o \in Reorderings(symbols) :
     \A i, j \in DOMAIN o :
       i < j => (PlaceIn(symbols, o[i]) - 1) \div FetchBatchSize
                  <= (PlaceIn(symbols, o[j]) - 1) \div FetchBatchSize}

\* fetchFinancialMetrics: a symbol is pushed when its request succeeded and
\* both values are truthy
fetchFinancialMetrics(data, completed) ==
  LET Keep(s) == /\ ~data[s].failed
                 /\ Truthy(data[s].roic)
                 /\ Truthy(data[s].earningsYield)
      kept == SelectSeq(completed, Keep)
  IN  [i \in DOMAIN kept |->
         MetricOf(kept[i], data[kept[i]].roic, data[kept[i]].earningsYield)]

\* rankedMetrics.slice(0, n)
Slice(s, n) == SubSeq(s, 1, IF n < Len(s) THEN n ELSE Len(s))

\* fractions with positive denominators
RatLess(a, b) == a[1] * b[2] < b[1] * a[2]
RatMin(a, b)  == IF RatLess(b, a) THEN b ELSE a

\* what alpaca.getAccount() may return: portfolio_value and cash
Accounts == {[portfolio_value |-> 4, cash |-> c] : c \in {1, 4}}

\* investmentPerStock and actualInvestmentPerStock
investmentPerStock(account, e) ==
  <<account.portfolio_value * e.percentNum, e.percentDen * e.batch>>

\* the whole cash for each stock
WholeCashPerStock(account, e) == <<account.cash, 1>>

actualInvestmentPerStock(account, e) == <<account.cash, e.batch>>

\* never fewer than one share
QtyAtLeastOne(b, currentPrice) ==
  LET investmentAmount == RatMin(b.investmentPerStock, b.actualInvestmentPerStock)
      qty == investmentAmount[1] \div (investmentAmount[2] * currentPrice)
  IN  IF qty < 1 THEN 1 ELSE qty

\* the quantity sized from investmentPerStock alone
QtyIgnoringCash(b, currentPrice) ==
  b.investmentPerStock[1] \div (b.investmentPerStock[2] * currentPrice)

\* Math.floor(Math.min(investmentPerStock, actualInvestmentPerStock) / currentPrice)
buyQty(b, currentPrice) ==
  LET investmentAmount == RatMin(b.investmentPerStock, b.actualInvestmentPerStock)
  IN  investmentAmount[1] \div (investmentAmount[2] * currentPrice)

\* parseFloat(quoteResponse.data[0].price)
QuotedPrices == {NaN, Num(0), Num(1), Num(2)}

\* the answers of the broker and of the quote service
World ==
  [accounts |-> Accounts, prices |-> QuotedPrices, positions |-> PositionLists]

\* every array fetchFinancialMetrics may return for a non-empty array of
\* symbols
FetchOutcomes ==
  UNION {{fetchFinancialMetrics(data, completed) :
            data \in [Range(symbols) -> Responses],
            completed \in CompletionOrders(symbols)} :
         symbols \in ScreenResults \ {<<>>}}

\* every order of symbols computeMagicFormulaRankings may return for an
\* array of fetchFinancialMetrics
RankedOutcomes ==
  UNION {{LET r == computeMagicFormulaRankings(ms, eyOrder, rocOrder)
          IN  [k \in DOMAIN r.result |-> r.objects[r.result[k]].symbol] :
            eyOrder \in sortedByEarningsYield(ms),
            rocOrder \in sortedByROC(ms)} :
         ms \in FetchOutcomes \ {<<>>}}

\* the run ends early and logs nothing
BuyReturnsSilently(line) ==
  /\ topStocks' = <<>>
  /\ bpc' = "done"
  /\ log' = [log EXCEPT !["buy"] = ""]

\* the run ends early: the line logged before return
BuyReturns(line) ==
  /\ topStocks' = <<>>
  /\ bpc' = "done"
  /\ log' = [log EXCEPT !["buy"] = line]

\* a run that starts only when no other buy run is in progress
BuyStartExclusive ==
  /\ bpc = "idle"
  /\ spc = "idle"
  /\ other.bpc = "idle"
  /\ Len(holdings[BuyDb]) < MaxBuyRows
  /\ \/ /\ <<>> \in ScreenResults
        /\ BuyReturns("No symbols to process. Exiting.")
     \/ /\ <<>> \in FetchOutcomes
        /\ BuyReturns("No financial metrics available. Exiting.")
     \/ \E rankedMetrics \in RankedOutcomes :
          /\ topStocks' = Slice(rankedMetrics, env.batch)
          /\ bpc' = "account"
          /\ log' = [log EXCEPT !["buy"] = ""]
  /\ UNCHANGED <<fixedVars, now, holdings, orders, emails, budget, buy,
                 sellVars, rankVars>>

\* steps 1 to 4: screen, fetch the metrics, rank, select the top stocks
BuyStart ==
  /\ bpc = "idle"
  /\ spc = "idle"
  /\ Len(holdings[BuyDb]) < MaxBuyRows
  /\ \/ /\ <<>> \in ScreenResults
        /\ BuyReturns("No symbols to process. Exiting.")
     \/ /\ <<>> \in FetchOutcomes
        /\ BuyReturns("No financial metrics available. Exiting.")
     \/ \E rankedMetrics \in RankedOutcomes :
          /\ topStocks' = Slice(rankedMetrics, env.batch)
          /\ bpc' = "account"
          /\ log' = [log EXCEPT !["buy"] = ""]
  /\ UNCHANGED <<fixedVars, now, holdings, orders, emails, budget, buy,
                 sellVars, rankVars>>

\* step 5 and 6: the account snapshot and the budget per stock
BuyAccount ==
  /\ bpc = "account"
  /\ \/ /\ BuyReturns("Unable to retrieve account information. Exiting.")
        /\ UNCHANGED budget
     \/ \E account \in world.accounts :
          /\ budget' = [portfolioValue |-> account.portfolio_value,
                        availableCash |-> account.cash,
                        investmentPerStock |-> investmentPerStock(account, env),
                        actualInvestmentPerStock |->
                          actualInvestmentPerStock(account, env)]
          /\ bpc' = "loop"
          /\ UNCHANGED <<topStocks, log>>
  /\ UNCHANGED <<fixedVars, now, holdings, orders, emails, buy, sellVars, rankVars>>

\* the iteration of the current stock ends
BuyContinue ==
  /\ topStocks' = Tail(topStocks)
  /\ buy' = <<>>
  /\ bpc' = "loop"

\* the line is logged and the run ends with the stocks that are left
BuyAborts(line) ==
  /\ log' = [log EXCEPT !["buy"] = line]
  /\ bpc' = "done"
  /\ UNCHANGED topStocks

\* the iteration logs the line that ends it; the stock is kept until the
\* loop moves on
BuyEnds(line) ==
  /\ log' = [log EXCEPT !["buy"] = line]
  /\ bpc' = "skip"
  /\ UNCHANGED topStocks

\* step 7: the quote of the next stock, the number of shares, and
\* placeBuyOrder up to its call of createOrder; or the end of the loop
BuyQuote ==
  /\ bpc = "loop"
  /\ \/ /\ topStocks = <<>>
        /\ bpc' = "done"
        /\ log' = [log EXCEPT !["buy"] = "Magic Formula Strategy execution completed."]
        /\ UNCHANGED <<topStocks, buy, orders>>
     \/ /\ topStocks # <<>>
        /\ \/ /\ BuyEnds("Error processing")           \* the request failed: caught
              /\ buy' = [symbol |-> Head(topStocks), qty |-> 0, price |-> NULL,
                         acquisitionDate |-> 0]
              /\ UNCHANGED orders
           \/ \E currentPrice \in world.prices :
                LET qty == IF ~IsNum(currentPrice) \/ Val(currentPrice) <= 0
                           THEN 0
                           ELSE buyQty(budget, Val(currentPrice))
                IN  /\ buy' = [symbol |-> Head(topStocks), qty |-> qty,
                               price |-> currentPrice, acquisitionDate |-> 0]
                    /\ IF ~IsNum(currentPrice) \/ Val(currentPrice) <= 0
                       THEN /\ BuyEnds("Invalid price. Skipping...")
                            /\ UNCHANGED orders
                       ELSE IF qty <= 0
                       THEN /\ BuyEnds("Calculated quantity is 0. Skipping...")
                            /\ UNCHANGED orders
                       ELSE /\ orders' = [orders EXCEPT !["buy"] =
                                            createOrder(@, Head(topStocks), Num(qty),
                                                        currentPrice, "buy")]
                            /\ bpc' = "order"
                            /\ UNCHANGED <<topStocks, log>>
  /\ UNCHANGED <<fixedVars, now, holdings, emails, budget, sellVars, rankVars>>

\* after an accepted order the cash left is taken as the new budget
BuyOrderReservesCash ==
  /\ bpc = "order"
  /\ \/ /\ orders' = [orders EXCEPT !["buy"] = settleOrder(@, "accepted")]
        /\ buy' = [buy EXCEPT !.acquisitionDate = now]
        /\ budget' = [budget EXCEPT
                        !.availableCash = @ - buy.qty * Val(buy.price),
                        !.actualInvestmentPerStock =
                          <<@[1] - buy.qty * Val(buy.price), @[2]>>]
        /\ bpc' = "insert"
        /\ UNCHANGED <<topStocks, log>>
     \/ /\ orders' = [orders EXCEPT !["buy"] = settleOrder(@, "rejected")]
        /\ BuyEnds("Failed to place buy order")
        /\ UNCHANGED <<buy, budget>>
  /\ UNCHANGED <<fixedVars, now, holdings, emails, sellVars, rankVars>>

\* a rejected createOrder is submitted again
BuyOrderRetries ==
  /\ bpc = "order"
  /\ \/ /\ orders' = [orders EXCEPT !["buy"] = settleOrder(@, "accepted")]
        /\ buy' = [buy EXCEPT !.acquisitionDate = now]
        /\ bpc' = "insert"
     \/ /\ Len(orders["buy"]) < 3
        /\ orders' = [orders EXCEPT !["buy"] =
                        createOrder(settleOrder(@, "rejected"), buy.symbol,
                                    Num(buy.qty), buy.price, "buy")]
        /\ UNCHANGED <<buy, bpc>>
  /\ UNCHANGED <<fixedVars, now, holdings, emails, budget, topStocks, log,
                 sellVars, rankVars>>

\* placeBuyOrder: the broker answers createOrder; then acquisitionDate =
\* new Date()
BuyOrder ==
  /\ bpc = "order"
  /\ \/ /\ orders' = [orders EXCEPT !["buy"] = settleOrder(@, "accepted")]
        /\ buy' = [buy EXCEPT !.acquisitionDate = now]
        /\ bpc' = "insert"
        /\ UNCHANGED <<topStocks, log>>
     \/ /\ orders' = [orders EXCEPT !["buy"] = settleOrder(@, "rejected")]
        /\ BuyEnds("Failed to place buy order")        \* caught and logged
        /\ UNCHANGED buy
  /\ UNCHANGED <<fixedVars, now, holdings, emails, budget, sellVars, rankVars>>

\* placeBuyOrder: db.run(INSERT ...), its callback logs the outcome
BuyInsert ==
  /\ bpc = "insert"
  /\ \/ holdings' = [holdings EXCEPT ![BuyDb] =
                       insertHolding(@, buy.symbol, buy.qty, buy.acquisitionDate)]
     \/ UNCHANGED holdings                             \* the write failed: logged
  /\ bpc' = "email"
  /\ UNCHANGED <<fixedVars, now, orders, emails, log, topStocks, budget, buy,
                 sellVars, rankVars>>

\* placeBuyOrder: await sendEmail  (a failure is logged inside sendEmail)
BuyEmail ==
  /\ bpc = "email"
  /\ \/ emails' = [emails EXCEPT !["buy"] =
                     Append(@, [symbol |-> buy.symbol, qty |-> Num(buy.qty),
                                price |-> buy.price])]
     \/ UNCHANGED emails
  /\ BuyContinue
  /\ UNCHANGED <<fixedVars, now, holdings, orders, log, budget, sellVars, rankVars>>

\* continue, the budget of the stock left behind given to the stocks to come
BuySkipRedistribute ==
  /\ bpc = "skip"
  /\ BuyContinue
  /\ log' = [log EXCEPT !["buy"] = ""]
  /\ budget' = [budget EXCEPT
                  !.investmentPerStock = <<2 * @[1], @[2]>>,
                  !.actualInvestmentPerStock = <<2 * @[1], @[2]>>]
  /\ UNCHANGED <<fixedVars, now, holdings, orders, emails, sellVars, rankVars>>

\* continue: the loop moves on to the next stock with the same budget
BuySkip ==
  /\ bpc = "skip"
  /\ BuyContinue
  /\ log' = [log EXCEPT !["buy"] = ""]
  /\ UNCHANGED <<fixedVars, now, holdings, orders, emails, budget, sellVars,
                 rankVars>>

\* executeMagicFormulaStrategy has returned and the process ends: what the
\* run has submitted, sent and logged is no longer observed
BuyExit ==
  /\ bpc = "done"
  /\ bpc' = "idle"
  /\ budget' = <<>>
  /\ orders' = [orders EXCEPT !["buy"] = <<>>]
  /\ emails' = [emails EXCEPT !["buy"] = <<>>]
  /\ log' = [log EXCEPT !["buy"] = ""]
  /\ UNCHANGED <<fixedVars, now, holdings, topStocks, buy, sellVars, rankVars>>

Tick ==
  /\ now < EndNow
  /\ now' = now + 1
  /\ UNCHANGED <<fixedVars, holdings, orders, emails, log, buyVars, sellVars,
                 rankVars>>

(***************************************************************************)
(* src/src/server.js                                                       *)
(***************************************************************************)
\* process.env.NODE_ENV ("" when it is not set)
NodeEnvs == {"prod", "dev", "production", "development", ""}

CronNames == {"buy", "sell", "health"}

ScriptOf(job) ==
  IF job = "buy" THEN "./src/scripts/buyPositions.js"
                 ELSE "./src/scripts/sellPositions.js"

\* the routes of the app; "*" is any other request (the 404 handler)
Routes ==
  {"/health", "/api/holdings", "/api/transactions", "/api/logs",
   "/api/cron/status", "/api/stats", "/", "*"}

\* no server process
ServerOff ==
  [pc |-> "off", NODE_ENV |-> "", running |-> [c \in CronNames |-> FALSE],
   executed |-> <<>>, served |-> {}]

\* the module is loaded: the cron jobs are created with scheduled: false
ServerBoot(nodeEnv) == [ServerOff EXCEPT !.pc = "boot", !.NODE_ENV = nodeEnv]

\* no second buy run
NoRun == [bpc |-> "idle", topStocks |-> <<>>, budget |-> <<>>, buy |-> <<>>,
          orders |-> <<>>, emails |-> <<>>, line |-> ""]

\* every cron job is started whatever NODE_ENV is
StartCronsAlways(nodeEnv) == TRUE

\* if (NODE_ENV === "prod")
startCrons(nodeEnv) == nodeEnv = "prod"

\* the cron jobs are started in production, then app.listen
ServerStart ==
  /\ server.pc = "boot"
  /\ server' = [server EXCEPT
                  !.pc = "listening",
                  !.running = [c \in CronNames |-> startCrons(server.NODE_ENV)]]
  /\ UNCHANGED <<env, world, transactions, other, now, holdings, orders,
                 emails, log, buyVars, sellVars, rankVars>>

\* the callback of buyPositionsCron or sellPositionsCron: executeScript
CronFire ==
  /\ server.pc = "listening"
  /\ Len(server.executed) < MaxExecuted
  /\ \E job \in Jobs :
       /\ server.running[job]
       /\ server' = [server EXCEPT
                       !.executed = Append(@, [script |-> ScriptOf(job),
                                               by |-> "cron"])]
  /\ UNCHANGED <<env, world, transactions, other, now, holdings, orders,
                 emails, log, buyVars, sellVars, rankVars>>

\* a request is answered by its route's handler: none of them executes a
\* script or starts a cron job
HttpRequest ==
  /\ server.pc = "listening"
  /\ \E route \in Routes :
       server' = [server EXCEPT !.served = @ \cup {route}]
  /\ UNCHANGED <<env, world, transactions, other, now, holdings, orders,
                 emails, log, buyVars, sellVars, rankVars>>

IdleTrade ==
  /\ orders = [j \in Jobs |-> <<>>]
  /\ emails = [j \in Jobs |-> <<>>]
  /\ log = [j \in Jobs |-> ""]
  /\ transactions = [f \in DbFiles |-> <<>>]
  /\ bpc = "idle" /\ topStocks = <<>> /\ budget = <<>> /\ buy = <<>>
  /\ spc = "idle" /\ positions = <<>> /\ pos = <<>> /\ decision = <<>>

(***************************************************************************)
(* SpecRank: the ranking function on bounded inputs                        *)
(***************************************************************************)
SymbolNames == <<"A", "B", "C", "D">>

MetricValues == {NULL, NaN, Num(0), Num(1), Num(2)}

Metric(i, roc, ey) ==
  [symbol |-> SymbolNames[i], returnOnCapital |-> roc, earningsYield |-> ey,
   eyRank |-> 0, rocRank |-> 0, combinedRank |-> 0]

\* A(roc=0.10, ey=0.08), B(roc=0.05, ey=0.12), C(roc=0.20, ey=0.05), in
\* units of 0.01
WorkedExample ==
  <<Metric(1, Num(10), Num(8)), Metric(2, Num(5), Num(12)), Metric(3, Num(20), Num(5))>>

MetricInputs ==
  UNION {
    {[i \in 1..n |-> Metric(i, f[i][1], f[i][2])] :
       f \in [1..n -> MetricValues \X MetricValues]} : n \in 0..MaxMetrics}

InitRank ==
  /\ metrics \in MetricInputs \cup {WorkedExample}
  /\ ranked = <<>>
  /\ rpc = "ready"
  /\ env \in {e \in Envs : e.batch = 1 /\ e.profitableDays = e.unprofitableDays}
  /\ world = World
  /\ now = StartNow
  /\ holdings = [f \in DbFiles |-> <<>>]
  /\ IdleTrade
  /\ server = ServerOff /\ other = NoRun

Rank ==
  /\ rpc = "ready"
  /\ \E eyOrder \in sortedByEarningsYield(metrics), rocOrder \in sortedByROC(metrics) :
       LET r == computeMagicFormulaRankings(metrics, eyOrder, rocOrder)
       IN  /\ metrics' = r.objects
           /\ ranked' = r.result
  /\ rpc' = "done"
  /\ UNCHANGED tradeVars

NextRank == Rank

SpecRank == InitRank /\ [][NextRank]_vars


(***************************************************************************)
(* SpecBuy: buy cycles with a wider range of accounts and configurations   *)
(***************************************************************************)
\* 365-day thresholds, the given batch size and investment fraction
BuyEnv(batch, percentNum, percentDen) ==
  [batch |-> batch, percentNum |-> percentNum, percentDen |-> percentDen,
   unprofitableDays |-> Num(365), profitableDays |-> Num(365)]

\* accounts of portfolio value 4 with cash above, at and below the
\* investment limit, and with no cash
BuyWorld ==
  [World EXCEPT !.accounts =
     {[portfolio_value |-> 4, cash |-> c] : c \in {0, 1, 3, 4}}]

\* portfolioValue=100000, maxInvestmentPercent=0.1, batchSize=5,
\* availableCash=6000, price=60
ExampleEnv   == BuyEnv(5, 1, 10)
ExampleWorld ==
  [World EXCEPT !.accounts = {[portfolio_value |-> 100000, cash |-> 6000]},
                !.prices = {Num(60), NaN}]

\* MAX_TOTAL_INVESTMENT_PERCENT=2 (outside 0 < p <= 1)
MalformedEnv == BuyEnv(1, 2, 1)

InitBuy ==
  /\ metrics = <<>> /\ ranked = <<>> /\ rpc = "off"
  /\ \/ /\ env \in {BuyEnv(b, 1, d) : b \in BatchSizes, d \in {1, 2}}
                     \cup {MalformedEnv}
        /\ world = BuyWorld
     \/ /\ env = ExampleEnv
        /\ world = ExampleWorld
  /\ now = StartNow
  /\ holdings = [f \in DbFiles |-> <<>>]
  /\ IdleTrade
  /\ server = ServerOff /\ other = NoRun

NextBuy ==
  \/ BuyStart \/ BuyAccount \/ BuyQuote \/ BuyOrder \/ BuyInsert \/ BuyEmail
  \/ BuySkip \/ BuyExit
  \/ Tick

SpecBuy == InitBuy /\ [][NextBuy]_vars

(***************************************************************************)
(* SpecSell: sell cycles over a database file that holds rows              *)
(***************************************************************************)
InitSell ==
  /\ metrics = <<>> /\ ranked = <<>> /\ rpc = "off"
  /\ env \in {e \in Envs : e.batch = 1}
  /\ world = World
  /\ now = StartNow
  /\ \E seed \in SeedLedgers :
       holdings = [f \in DbFiles |-> IF f = SellDb THEN seed ELSE <<>>]
  /\ IdleTrade
  /\ server = ServerOff /\ other = NoRun

NextSell ==
  \/ SellStart \/ SellNext \/ SellLookup \/ SellDecided \/ SellOrder
  \/ SellUpdate \/ SellEmail \/ SellSkip \/ SellExit
  \/ Tick

SpecSell == InitSell /\ [][NextSell]_vars

(***************************************************************************)
(* Spec: buy cycles and sell cycles, one script running at a time: the     *)
(* cron schedules start them at different hours, and the two scripts open  *)
(* different database files, so a step of one changes nothing the other    *)
(* reads.                                                                  *)
(***************************************************************************)
Init ==
  /\ metrics = <<>> /\ ranked = <<>> /\ rpc = "off"
  /\ env \in {e \in Envs : e.unprofitableDays = e.profitableDays}
  /\ world = World
  /\ now = StartNow
  /\ \E seed \in {l \in SeedLedgers : Len(l) <= 1} :
       holdings = [f \in DbFiles |-> IF f = SellDb THEN seed ELSE <<>>]
  /\ IdleTrade
  /\ server = ServerOff /\ other = NoRun

Next ==
  \/ BuyStart \/ BuyAccount \/ BuyQuote \/ BuyOrder \/ BuyInsert \/ BuyEmail
  \/ BuySkip \/ BuyExit
  \/ SellStart \/ SellNext \/ SellLookup \/ SellDecided \/ SellOrder
  \/ SellUpdate \/ SellEmail \/ SellSkip \/ SellExit
  \/ Tick

Spec == Init /\ [][Next]_vars

(***************************************************************************)
(* SpecOverlap: two buy runs at the same time.  Each run is a process of   *)
(* its own; the run that takes the next step has its locals in the buy     *)
(* variables, the run that waits has them in other.                        *)
(***************************************************************************)
\* the other process takes the next steps
Switch ==
  /\ other' = [bpc |-> bpc, topStocks |-> topStocks, budget |-> budget,
               buy |-> buy, orders |-> orders["buy"], emails |-> emails["buy"],
               line |-> log["buy"]]
  /\ bpc' = other.bpc
  /\ topStocks' = other.topStocks
  /\ budget' = other.budget
  /\ buy' = other.buy
  /\ orders' = [orders EXCEPT !["buy"] = other.orders]
  /\ emails' = [emails EXCEPT !["buy"] = other.emails]
  /\ log' = [log EXCEPT !["buy"] = other.line]
  /\ UNCHANGED <<env, world, transactions, server, now, holdings, sellVars,
                 rankVars>>

\* the account both runs are shown: orders submitted before the market
\* opens are not filled, so the cash stays what it was
OverlapWorld ==
  [World EXCEPT !.accounts = {[portfolio_value |-> 4, cash |-> 4]},
                !.prices = {Num(1), Num(2)}]

InitOverlap ==
  /\ metrics = <<>> /\ ranked = <<>> /\ rpc = "off"
  /\ env \in {BuyEnv(b, 1, 1) : b \in BatchSizes}
  /\ world = OverlapWorld
  /\ now = StartNow
  /\ holdings = [f \in DbFiles |-> <<>>]
  /\ IdleTrade
  /\ server = ServerOff /\ other = NoRun

NextOverlap ==
  \/ BuyStart \/ BuyAccount \/ BuyQuote \/ BuyOrder \/ BuyInsert \/ BuyEmail
  \/ BuySkip \/ BuyExit
  \/ Switch

SpecOverlap == InitOverlap /\ [][NextOverlap]_vars

(***************************************************************************)
(* SpecServer: the server in every mode                                    *)
(***************************************************************************)
InitServer ==
  /\ metrics = <<>> /\ ranked = <<>> /\ rpc = "off"
  /\ env = BuyEnv(1, 1, 2)
  /\ world = World
  /\ now = StartNow
  /\ holdings = [f \in DbFiles |-> <<>>]
  /\ IdleTrade
  /\ server \in {ServerBoot(nodeEnv) : nodeEnv \in NodeEnvs}
  /\ other = NoRun

NextServer == ServerStart \/ CronFire \/ HttpRequest

SpecServer == InitServer /\ [][NextServer]_vars

(***************************************************************************)
(* Properties of computeMagicFormulaRankings (SpecRank)                    *)
(***************************************************************************)
\* C1: the returned array is in ascending combinedRank order, two entries
\* with equal combinedRank stand in the order they had in the input, and
\* the input [A(0.10, 0.08), B(0.05, 0.12), C(0.20, 0.05)] (every
\* combinedRank 4) yields [A, B, C].
RankedAscendingTiesInInputOrder ==
  rpc = "done" =>
    /\ \A i, j \in DOMAIN ranked :
         i < j =>
           \/ metrics[ranked[i]].combinedRank < metrics[ranked[j]].combinedRank
           \/ /\ metrics[ranked[i]].combinedRank = metrics[ranked[j]].combinedRank
              /\ ranked[i] < ranked[j]
    /\ (/\ Len(metrics) = Len(WorkedExample)
        /\ \A i \in DOMAIN metrics :
             /\ metrics[i].returnOnCapital = WorkedExample[i].returnOnCapital
             /\ metrics[i].earningsYield = WorkedExample[i].earningsYield)
         => /\ \A i \in DOMAIN metrics : metrics[i].combinedRank = 4
            /\ [k \in DOMAIN ranked |-> metrics[ranked[k]].symbol] = <<"A", "B", "C">>

\* the worked example has been ranked: three entries tied on combinedRank 4
WorkedExampleRanked ==
  /\ rpc = "done"
  /\ Len(ranked) = 3
  /\ metrics[1].returnOnCapital = Num(10) /\ metrics[1].earningsYield = Num(8)
  /\ metrics[2].returnOnCapital = Num(5)  /\ metrics[2].earningsYield = Num(12)
  /\ metrics[3].returnOnCapital = Num(20) /\ metrics[3].earningsYield = Num(5)
  /\ \A i \in 1..3 : metrics[i].combinedRank = 4
  /\ ranked = <<1, 2, 3>>

\* C2: with N entries passing the filter, the eyRank values of the returned
\* entries are exactly 1..N and so are the rocRank values, also when values
\* are equal.
RanksArePermutations ==
  rpc = "done" =>
    /\ {metrics[ranked[k]].eyRank : k \in DOMAIN ranked} = 1..Len(ranked)
    /\ {metrics[ranked[k]].rocRank : k \in DOMAIN ranked} = 1..Len(ranked)
    /\ Len(ranked) = Cardinality({i \in DOMAIN metrics :
                                    /\ metrics[i].returnOnCapital # NULL
                                    /\ metrics[i].earningsYield # NULL})

\* two entries with equal earningsYield and different returnOnCapital have
\* been ranked
EqualYieldsRanked ==
  /\ rpc = "done"
  /\ Len(ranked) = 2
  /\ metrics[1].earningsYield = metrics[2].earningsYield
  /\ IsNum(metrics[1].earningsYield)
  /\ JsGt(metrics[2].returnOnCapital, metrics[1].returnOnCapital)
  /\ metrics[1].eyRank = 1 /\ metrics[2].eyRank = 2
  /\ metrics[1].rocRank = 2 /\ metrics[2].rocRank = 1

\* C3: every returned entry has combinedRank = eyRank + rocRank.
CombinedRankIsSum ==
  rpc = "done" =>
    \A k \in DOMAIN ranked :
      /\ metrics[ranked[k]].eyRank >= 1
      /\ metrics[ranked[k]].rocRank >= 1
      /\ metrics[ranked[k]].combinedRank
           = metrics[ranked[k]].eyRank + metrics[ranked[k]].rocRank

\* an entry ranked 1 by earnings yield and 2 by return on capital got 3
DifferentRanksSummed ==
  /\ rpc = "done"
  /\ \E k \in DOMAIN ranked :
       /\ metrics[ranked[k]].eyRank = 1
       /\ metrics[ranked[k]].rocRank = 2
       /\ metrics[ranked[k]].combinedRank = 3

SellDecisionFormula ==
  decision # <<>> =>
    LET elapsed == decision.today - decision.acquisitionDate
        days    == decision.holdingDuration
        U       == Val(env.unprofitableDays)
        P       == Val(env.profitableDays)
    IN  /\ days * TicksPerDay <= elapsed
        /\ elapsed < (days + 1) * TicksPerDay
        /\ decision.shouldSell
             = (\/ ~pos.isProfitable /\ days >= U
                \/ pos.isProfitable /\ days >= P)
        /\ spc \in {"order", "update", "email"} => decision.shouldSell
        /\ (U = 365 /\ P = 365 /\ JsGt(pos.entryPrice, pos.currentPrice))
             => /\ elapsed = 365 * TicksPerDay => decision.shouldSell
                /\ elapsed = 364 * TicksPerDay => ~decision.shouldSell

\* thresholds 365 and 365, the price below entry, exactly 365 days: sell
SellsAt365Days ==
  /\ decision # <<>>
  /\ env.unprofitableDays = Num(365) /\ env.profitableDays = Num(365)
  /\ JsGt(pos.entryPrice, pos.currentPrice)
  /\ decision.today - decision.acquisitionDate = 365 * TicksPerDay
  /\ decision.holdingDuration = 365
  /\ decision.shouldSell

\* C6 as the specification states it: isProfitable is true exactly when
\* currentPrice is strictly greater than the acquisition price of the
\* holding row being evaluated.
ProfitableAgainstAcquisitionPrice ==
  spc = "decided" =>
    LET rows   == holdings[SellDb]
        active == {i \in DOMAIN rows : /\ rows[i].symbol = pos.symbol
                                       /\ rows[i].status = "active"}
    IN  \A i \in active :
          parseDate(rows[i].acquisition_date) = decision.acquisitionDate
            => (pos.isProfitable
                  <=> JsGt(pos.currentPrice, rows[i].acquisition_price))

\* C6 amended: isProfitable is true exactly when the position's current
\* price is strictly greater than the position's avg_entry_price as the
\* broker reports it; an equal price, and a price that is not a number,
\* count as unprofitable.
ProfitableAgainstEntryPrice ==
  pos # <<>> =>
    /\ pos.isProfitable
         <=> /\ IsNum(pos.currentPrice) /\ IsNum(pos.entryPrice)
             /\ Val(pos.currentPrice) > Val(pos.entryPrice)
    /\ pos.currentPrice = pos.entryPrice => ~pos.isProfitable

\* a position whose current price equals its entry price was evaluated as
\* unprofitable
EqualPriceUnprofitable ==
  /\ decision # <<>>
  /\ IsNum(pos.currentPrice)
  /\ pos.currentPrice = pos.entryPrice
  /\ ~pos.isProfitable

\* C7: with several active rows of one symbol, the holding days are those
\* of the earliest acquisition date among the symbol's active rows, never
\* of a later row and never of a sold row.
EvaluatesEarliestActiveRow ==
  spc = "decided" =>
    LET rows   == holdings[SellDb]
        active == {i \in DOMAIN rows : /\ rows[i].symbol = pos.symbol
                                       /\ rows[i].status = "active"}
    IN  /\ \E i \in active :
             parseDate(rows[i].acquisition_date) = decision.acquisitionDate
        /\ \A i \in active :
             decision.acquisitionDate <= parseDate(rows[i].acquisition_date)
        /\ decision.holdingDuration
             = (decision.today - decision.acquisitionDate) \div TicksPerDay

\* two active rows of the symbol, the later one first in the table: the
\* earlier date was evaluated
EarlierOfTwoActiveRows ==
  /\ spc = "decided"
  /\ Len(holdings[SellDb]) = 2
  /\ \A i \in 1..2 : /\ holdings[SellDb][i].symbol = pos.symbol
                     /\ holdings[SellDb][i].status = "active"
  /\ parseDate(holdings[SellDb][1].acquisition_date)
       > parseDate(holdings[SellDb][2].acquisition_date)
  /\ decision.acquisitionDate = parseDate(holdings[SellDb][2].acquisition_date)

\* C8 as the specification states it: the order's quantity is the quantity
\* of the earliest active row of the symbol.
SellsEarliestLotQuantity ==
  spc = "update" =>
    LET rows   == holdings[SellDb]
        active == {i \in DOMAIN rows : /\ rows[i].symbol = pos.symbol
                                       /\ rows[i].status = "active"}
        order  == orders["sell"][Len(orders["sell"])]
    IN  \E i \in active :
          /\ parseDate(rows[i].acquisition_date) = decision.acquisitionDate
          /\ order.qty = Num(rows[i].quantity)

\* C8 amended: on a sell decision exactly one sell order is submitted for
\* the symbol, and its quantity is the whole quantity of the broker
\* position (position.qty), whatever the quantity of the earliest active
\* row.
SellsWholePosition ==
  pos # <<>> =>
    LET mine == SelectSeq(orders["sell"], LAMBDA o : o.symbol = pos.symbol)
    IN  /\ spc \in {"lookup", "decided"} => mine = <<>>
        /\ spc \in {"order", "update", "email"} =>
             /\ Len(mine) = 1
             /\ mine[1].side = "sell"
             /\ mine[1].qty = pos.qty

\* an order for a position of 2 shares, the earliest active row holding 1
PositionLargerThanLotSold ==
  /\ spc = "update"
  /\ pos.qty = Num(2)
  /\ \E i \in DOMAIN holdings[SellDb] :
       /\ holdings[SellDb][i].symbol = pos.symbol
       /\ holdings[SellDb][i].status = "active"
       /\ holdings[SellDb][i].quantity = 1
       /\ parseDate(holdings[SellDb][i].acquisition_date) = decision.acquisitionDate
  /\ orders["sell"][Len(orders["sell"])].qty = Num(2)

\* C9: a sold row is never read or changed again: a row changes at most
\* once, a sold row stays as it is, and for a symbol without an active row
\* a pass takes no decision and submits no order.
SoldIsExcluded ==
  [][LET rows == holdings[SellDb]
         ActiveOf(s) == {i \in DOMAIN rows : /\ rows[i].symbol = s
                                             /\ rows[i].status = "active"}
         SellsOf(sent, s) == Cardinality({k \in DOMAIN sent : sent[k].symbol = s})
     IN  /\ \A i \in DOMAIN rows :
              rows[i].status = "sold" =>
                /\ i \in DOMAIN holdings'[SellDb]
                /\ holdings'[SellDb][i] = rows[i]
         /\ \A i \in DOMAIN holdings'[SellDb] : holdings'[SellDb][i].updates <= 1
         /\ (spc = "lookup" /\ ActiveOf(pos.symbol) = {}) => spc' # "decided"
         /\ \A s \in Symbols :
              ActiveOf(s) = {} =>
                SellsOf(orders'["sell"], s) <= SellsOf(orders["sell"], s)
    ]_vars

\* a later pass looks up a symbol whose row an earlier pass marked sold
SecondPassOverSold ==
  /\ spc = "lookup"
  /\ orders["sell"] = <<>>
  /\ \E i \in DOMAIN holdings[SellDb] :
       /\ holdings[SellDb][i].symbol = pos.symbol
       /\ holdings[SellDb][i].status = "sold"
       /\ holdings[SellDb][i].updates = 1
  /\ \A i \in DOMAIN holdings[SellDb] :
       holdings[SellDb][i].symbol = pos.symbol => holdings[SellDb][i].status = "sold"

(***************************************************************************)
(* Properties of the holdings tables (Spec)                                *)
(***************************************************************************)
\* C10: in every database file the holdings table only grows, a new row is
\* active, and a row keeps its columns except that its status may change
\* from active to sold, never back.
LedgerAppendOnly ==
  [][\A f \in DbFiles :
       /\ Len(holdings'[f]) >= Len(holdings[f])
       /\ \A i \in DOMAIN holdings[f] :
            /\ holdings'[f][i].symbol = holdings[f][i].symbol
            /\ holdings'[f][i].quantity = holdings[f][i].quantity
            /\ holdings'[f][i].acquisition_date = holdings[f][i].acquisition_date
            /\ \/ holdings'[f][i].status = holdings[f][i].status
               \/ /\ holdings[f][i].status = "active"
                  /\ holdings'[f][i].status = "sold"
       /\ \A i \in DOMAIN holdings'[f] \ DOMAIN holdings[f] :
            holdings'[f][i].status = "active"
    ]_vars

\* a buy cycle has inserted a row and a sell cycle has marked a row sold
BoughtAndSold ==
  /\ \E i \in DOMAIN holdings[BuyDb] : holdings[BuyDb][i].status = "active"
  /\ \E i \in DOMAIN holdings[SellDb] :
       /\ holdings[SellDb][i].status = "sold"
       /\ holdings[SellDb][i].updates = 1

(***************************************************************************)
(* Properties of the buy cycle (SpecBuy)                                   *)
(***************************************************************************)
\* C11: every order of a buy cycle has quantity = floor(min(portfolioValue
\* * maxInvestmentPercent / batchSize, cash / batchSize) / price); with
\* portfolioValue 100000, percent 0.1, batch size 5, cash 6000 and price 60
\* the quantity is 20.
OrderQuantityFormula ==
  \A k \in DOMAIN orders["buy"] :
    LET q    == Val(orders["buy"][k].qty)
        p    == Val(orders["buy"][k].price)
        pv   == budget.portfolioValue
        cash == budget.availableCash
        \* x <= theoretical and x <= cashConstrained, for an amount x * p
        FitsTheoretical(x) ==
          x * p * env.percentDen * env.batch <= pv * env.percentNum
        FitsCash(x) == x * p * env.batch <= cash
    IN  /\ IsNum(orders["buy"][k].price) /\ p > 0
        /\ FitsTheoretical(q) /\ FitsCash(q)
        /\ ~(FitsTheoretical(q + 1) /\ FitsCash(q + 1))
        /\ (/\ pv = 100000 /\ cash = 6000 /\ p = 60 /\ env.batch = 5
            /\ env.percentNum = 1 /\ env.percentDen = 10) => q = 20

\* the worked example: an order of 20 shares at 60 was accepted
ExampleOrderOfTwenty ==
  /\ env = ExampleEnv
  /\ budget # <<>>
  /\ budget.portfolioValue = 100000 /\ budget.availableCash = 6000
  /\ \E k \in DOMAIN orders["buy"] :
       /\ orders["buy"][k].price = Num(60)
       /\ orders["buy"][k].qty = Num(20)
       /\ orders["buy"][k].status = "accepted"

\* C12: in one buy cycle whose snapshot has cash >= 0, the sum of quantity *
\* quoted price over all submitted orders never exceeds the snapshot's cash.
OrdersWithinSnapshotCash ==
  LET RECURSIVE Cost(_)
      Cost(sent) ==
        IF sent = <<>> THEN 0
        ELSE Val(Head(sent).qty) * Val(Head(sent).price) + Cost(Tail(sent))
  IN  (orders["buy"] # <<>> /\ budget.availableCash >= 0)
        => Cost(orders["buy"]) <= budget.availableCash

\* two orders of one cycle that together spend the whole cash of the snapshot
TwoOrdersSpendAllCash ==
  /\ Len(orders["buy"]) = 2
  /\ budget # <<>>
  /\ budget.availableCash > 0
  /\ Val(orders["buy"][1].qty) * Val(orders["buy"][1].price)
       + Val(orders["buy"][2].qty) * Val(orders["buy"][2].price)
     = budget.availableCash

\* C13: a stock whose quoted price is missing, not a number or <= 0, or for
\* which not even one share fits the budget per stock, produces no broker
\* order, no holding row and no notification: its iteration ends in a skip
\* that leaves orders, holdings and emails as they were.
SkippedStockLeavesNoTrace ==
  [][LET price == buy'.price
         OneShareFits ==
           /\ Val(price) * env.percentDen * env.batch
                <= budget.portfolioValue * env.percentNum
           /\ Val(price) * env.batch <= budget.availableCash
         Untouched == /\ orders' = orders
                      /\ holdings' = holdings
                      /\ emails' = emails
     IN  /\ (/\ bpc = "loop" /\ topStocks # <<>> /\ bpc' # "loop"
             /\ (~IsNum(price) \/ Val(price) <= 0 \/ ~OneShareFits))
              => (bpc' = "skip" /\ Untouched)
         /\ (bpc = "skip" /\ bpc' # "skip")
              => (bpc' = "loop" /\ Untouched /\ topStocks' = Tail(topStocks))
    ]_vars

\* a stock quoted NaN was skipped after an earlier stock of the batch was
\* ordered
SkippedAfterAnOrder ==
  /\ bpc = "skip"
  /\ buy.price = NaN
  /\ log["buy"] = "Invalid price. Skipping..."
  /\ Len(orders["buy"]) = 1
  /\ orders["buy"][1].symbol # buy.symbol

\* C14: within one buy batch the quantity ordered for a stock depends only
\* on the account snapshot, the batch size, the percent and the stock's own
\* price: the budget per stock taken from the snapshot is never changed while
\* the batch is processed, whatever happens to a stock, and two orders of the
\* batch quoted the same price have the same quantity.
NoRedistribution ==
  [][/\ (bpc \in {"loop", "order", "insert", "email", "skip"} /\ bpc' # "idle")
          => budget' = budget
     /\ \A k \in DOMAIN orders'["buy"] :
          (k > 1 /\ k \notin DOMAIN orders["buy"]
                 /\ orders'["buy"][k].price = orders["buy"][1].price)
            => orders'["buy"][k].qty = orders["buy"][1].qty
    ]_vars

\* the first stock's order was rejected, its budget left unused, and the
\* second stock was ordered at the same price and in the same quantity though
\* the cash would have paid for more
SecondOrderAfterUnusedBudget ==
  /\ Len(orders["buy"]) = 2
  /\ orders["buy"][1].status = "rejected"
  /\ orders["buy"][2].status = "accepted"
  /\ orders["buy"][2].price = orders["buy"][1].price
  /\ orders["buy"][2].qty = orders["buy"][1].qty
  /\ budget # <<>>
  /\ (Val(orders["buy"][2].qty) + 1) * Val(orders["buy"][2].price)
       <= budget.availableCash

\* C25: in a buy cycle the account is read exactly once, before the first
\* order: the budget is set by that one step and changes no more until the
\* run is over, and every order is sized from it and the quoted price alone,
\* whatever was ordered before (no running total is kept).
AccountReadOnceBeforeFirstOrder ==
  [][/\ budget' # budget =>
          \/ /\ bpc = "account" /\ bpc' = "loop"
             /\ budget = <<>> /\ orders["buy"] = <<>>
             /\ \E account \in world.accounts :
                  /\ budget'.portfolioValue = account.portfolio_value
                  /\ budget'.availableCash = account.cash
          \/ /\ bpc = "done" /\ bpc' = "idle" /\ budget' = <<>>
     /\ Len(orders'["buy"]) > Len(orders["buy"]) =>
          LET new == orders'["buy"][Len(orders'["buy"])]
              m   == RatMin(budget.investmentPerStock,
                            budget.actualInvestmentPerStock)
              q   == Val(new.qty)
              p   == Val(new.price)
          IN  /\ budget' = budget
              /\ q * p * m[2] <= m[1]
              /\ (q + 1) * p * m[2] > m[1]
    ]_vars

\* two accepted orders commit the whole cash of the snapshot at the quoted
\* prices: filled one unit above the quotes they cost more than the cash
WholeCashCommittedAtQuotes ==
  /\ bpc = "loop" /\ topStocks = <<>>
  /\ Len(orders["buy"]) = 2
  /\ orders["buy"][1].status = "accepted"
  /\ orders["buy"][2].status = "accepted"
  /\ Val(orders["buy"][1].qty) * Val(orders["buy"][1].price)
       + Val(orders["buy"][2].qty) * Val(orders["buy"][2].price)
     = budget.availableCash
  /\ Val(orders["buy"][1].qty) * (Val(orders["buy"][1].price) + 1)
       + Val(orders["buy"][2].qty) * (Val(orders["buy"][2].price) + 1)
     > budget.availableCash

(***************************************************************************)
(* Properties of the two cycles together (Spec)                            *)
(***************************************************************************)
\* C15: every confirmed broker order, buy or sell, has exactly one row in a
\* transactions table with the order's symbol, action, quantity and price
\* and total_amount = quantity * price.
OneTransactionPerConfirmedOrder ==
  \A job \in Jobs : \A k \in DOMAIN orders[job] :
    orders[job][k].status = "accepted" =>
      \E f \in DbFiles :
        Cardinality({i \in DOMAIN transactions[f] :
                       /\ transactions[f][i].symbol = orders[job][k].symbol
                       /\ transactions[f][i].action = orders[job][k].side
                       /\ transactions[f][i].quantity = orders[job][k].qty
                       /\ transactions[f][i].price = orders[job][k].price
                       /\ transactions[f][i].total_amount =
                            Val(orders[job][k].qty) * Val(orders[job][k].price)})
          = 1

\* C16: a cycle never aborts because one symbol fails. A failed key-metrics
\* request only leaves that symbol out of the metrics; in the loops, once an
\* iteration has ended (quote failed, lookup failed or found nothing, order
\* or ledger write failed) the loop goes on with the symbols that are left,
\* no step of an iteration drops a symbol that is still to come, and the run
\* is over only when no symbol is left.
FailureOfOneSymbolIsIsolated ==
  [][/\ (bpc = "idle" /\ bpc' = "account") =>
          \A symbols \in {p \in ScreenResults : Len(p) = 2} :
            \A data \in [Range(symbols) -> Responses] :
              \A completed \in CompletionOrders(symbols) :
                data[symbols[1]].failed =>
                  fetchFinancialMetrics(data, completed)
                    = fetchFinancialMetrics(data, <<symbols[2]>>)
     /\ (bpc = "skip" /\ bpc' # "skip") =>
          (bpc' = "loop" /\ topStocks' = Tail(topStocks))
     /\ (bpc \in {"loop", "order", "insert", "email"} /\ bpc' # "loop") =>
          topStocks' = topStocks
     /\ (bpc \in {"loop", "order", "insert", "email", "skip"} /\ bpc' = "done") =>
          (bpc = "loop" /\ topStocks = <<>>)
     /\ (spc = "skip" /\ spc' # "skip") =>
          (spc' = "loop" /\ positions' = Tail(positions))
     /\ (spc \in {"loop", "lookup", "decided", "order", "update", "email"}
           /\ spc' # "loop") =>
          positions' = positions
     /\ (spc \in {"loop", "lookup", "decided", "order", "update", "email", "skip"}
           /\ spc' = "done") =>
          (spc = "loop" /\ positions = <<>>)
    ]_vars

\* the sell order of the first position was rejected and the loop has gone on
\* to the second position, the last one left
SecondPositionAfterFailure ==
  /\ Len(orders["sell"]) = 1
  /\ orders["sell"][1].status = "rejected"
  /\ spc = "lookup"
  /\ pos.symbol # orders["sell"][1].symbol
  /\ positions = <<pos.symbol>>

\* C17: when the broker rejects an order the cycle does not submit it again
\* (no symbol has two orders in one cycle), leaves the holdings as they were
\* (no row inserted on a failed buy, no row marked sold on a failed sell) and
\* continues with the next symbol.
RejectedOrderNotRetried ==
  [][\A job \in Jobs :
       LET pc    == IF job = "buy" THEN bpc ELSE spc
           pcNew == IF job = "buy" THEN bpc' ELSE spc'
           sent  == orders[job]
           rest  == IF job = "buy" THEN topStocks ELSE positions
           restNew == IF job = "buy" THEN topStocks' ELSE positions'
       IN  /\ \A i, j \in DOMAIN orders'[job] :
                orders'[job][i].symbol = orders'[job][j].symbol => i = j
           /\ (/\ pc = "order" /\ orders'[job] # sent
               /\ orders'[job][Len(sent)].status = "rejected")
                => /\ Len(orders'[job]) = Len(sent)
                   /\ holdings' = holdings
                   /\ emails' = emails
                   /\ pcNew = "skip"
           /\ (pc = "skip" /\ pcNew # "skip")
                => /\ orders'[job] = sent
                   /\ holdings' = holdings
                   /\ pcNew = "loop"
                   /\ restNew = Tail(rest)
    ]_vars

\* the buy order of the first stock was rejected, no holding was inserted,
\* and the loop is at the second stock
RejectedBuyLeftNoHolding ==
  /\ bpc = "loop"
  /\ Len(orders["buy"]) = 1
  /\ orders["buy"][1].status = "rejected"
  /\ holdings[BuyDb] = <<>>
  /\ Len(topStocks) = 1
  /\ topStocks[1] # orders["buy"][1].symbol

\* C18: within one cycle at most one order submission is outstanding: the
\* only order that may be without an answer is the last one submitted, and
\* only while the cycle awaits it; when the next order is submitted every
\* earlier one has been accepted or rejected.
OneSubmissionOutstanding ==
  \A job \in Jobs :
    LET pc   == IF job = "buy" THEN bpc ELSE spc
        sent == orders[job]
    IN  /\ \A k \in DOMAIN sent :
             sent[k].status = "pending" => (k = Len(sent) /\ pc = "order")
        /\ pc = "order" => (sent # <<>> /\ sent[Len(sent)].status = "pending")

\* the second order of a buy cycle awaits its answer after the first one was
\* accepted
SecondOrderAwaitedAfterFirst ==
  /\ bpc = "order"
  /\ Len(orders["buy"]) = 2
  /\ orders["buy"][1].status = "accepted"
  /\ orders["buy"][2].status = "pending"

\* C19 as stated: every cycle that completes, also one that ends early, has
\* as its last line a summary giving the counts of symbols attempted,
\* succeeded, skipped and failed.
CompletionLogsCounts ==
  LET ToString(n) == <<"0", "1", "2">>[n + 1]
      SummaryLine(a, s, k, f) ==
        "attempted=" \o ToString(a) \o " succeeded=" \o ToString(s)
          \o " skipped=" \o ToString(k) \o " failed=" \o ToString(f)
      Counts == 0..Cardinality(Symbols)
      Summaries == {SummaryLine(a, s, k, f) :
                      a \in Counts, s \in Counts, k \in Counts, f \in Counts}
  IN  /\ bpc = "done" => log["buy"] \in Summaries
      /\ spc = "done" => log["sell"] \in Summaries

\* C19: every cycle that completes logs one last line, without counts: the
\* completion line after its loop, whatever happened to the symbols, or the
\* line naming the reason when it ends early (no symbols, no metrics, no
\* account, no positions, positions not fetched).
CompletionLogsFinalLine ==
  /\ bpc = "done" =>
       IF budget # <<>>
       THEN log["buy"] = "Magic Formula Strategy execution completed."
       ELSE log["buy"] \in {"No symbols to process. Exiting.",
                            "No financial metrics available. Exiting.",
                            "Unable to retrieve account information. Exiting."}
  /\ spc = "done" =>
       log["sell"] \in {"Portfolio Management completed.",
                        "No open positions found.",
                        "Error fetching positions"}
  /\ (spc = "done" /\ orders["sell"] # <<>>) =>
       log["sell"] = "Portfolio Management completed."

\* a buy cycle in which one order was rejected and one accepted has ended
\* with the completion line
CompletedAfterARejection ==
  /\ bpc = "done"
  /\ log["buy"] = "Magic Formula Strategy execution completed."
  /\ Len(orders["buy"]) = 2
  /\ orders["buy"][1].status = "rejected"
  /\ orders["buy"][2].status = "accepted"

\* C20: when a configuration value is malformed (batch size not a positive
\* integer, max investment percent outside 0 < p <= 1, a hold threshold that
\* is not a non-negative integer) the buy cycle fails before any order is
\* made: it submits no order and does not reach the end of its loop.
MalformedConfigFailsFast ==
  LET WellFormed(e) ==
        /\ e.batch \in Nat \ {0}
        /\ 0 < e.percentNum /\ e.percentNum <= e.percentDen
        /\ IsNum(e.unprofitableDays) /\ Val(e.unprofitableDays) >= 0
        /\ IsNum(e.profitableDays) /\ Val(e.profitableDays) >= 0
  IN  ~WellFormed(env) =>
        /\ orders["buy"] = <<>>
        /\ bpc \notin {"loop", "order", "insert", "email", "skip"}
        /\ log["buy"] # "Magic Formula Strategy execution completed."

(***************************************************************************)
(* Further properties of the ranking function (SpecRank)                   *)
(***************************************************************************)
\* C21 as stated, for entries whose metrics are numbers: every run on the
\* same input returns the same order, and a run on the same entries in any
\* other order gives every entry the same eyRank, rocRank and combinedRank,
\* entries with different combinedRank keeping their relative output order.
RanksIndependentOfInputOrder ==
  LET input == [i \in DOMAIN metrics |->
                  [metrics[i] EXCEPT !.eyRank = 0, !.rocRank = 0,
                                     !.combinedRank = 0]]
      Numeric == \A i \in DOMAIN input :
                   IsNum(input[i].returnOnCapital) /\ IsNum(input[i].earningsYield)
  IN  (rpc = "done" /\ Numeric) =>
        /\ \A eyOrder \in sortedByEarningsYield(input), rocOrder \in sortedByROC(input) :
             computeMagicFormulaRankings(input, eyOrder, rocOrder).result = ranked
        /\ \A p \in Reorderings(Indices(input)) :
             LET shuffled == [k \in DOMAIN input |-> input[p[k]]]
             IN  \A eyOrder \in sortedByEarningsYield(shuffled),
                    rocOrder \in sortedByROC(shuffled) :
                   LET r == computeMagicFormulaRankings(shuffled, eyOrder, rocOrder)
                   IN  \A k \in DOMAIN shuffled : r.objects[k] = metrics[p[k]]

\* C21: on entries whose metrics are numbers every run on the same input
\* returns the same order; a run on the same entries in any other order
\* gives every entry the same eyRank, rocRank and combinedRank provided no
\* two entries have equal earningsYield or equal returnOnCapital, and then
\* only the relative output order of entries tied on combinedRank may differ.
RanksIndependentOfInputOrderWithoutMetricTies ==
  LET input == [i \in DOMAIN metrics |->
                  [metrics[i] EXCEPT !.eyRank = 0, !.rocRank = 0,
                                     !.combinedRank = 0]]
      Numeric == \A i \in DOMAIN input :
                   IsNum(input[i].returnOnCapital) /\ IsNum(input[i].earningsYield)
      NoMetricTies ==
        \A i, j \in DOMAIN input :
          i # j => /\ input[i].earningsYield # input[j].earningsYield
                   /\ input[i].returnOnCapital # input[j].returnOnCapital
  IN  (rpc = "done" /\ Numeric) =>
        /\ \A eyOrder \in sortedByEarningsYield(input), rocOrder \in sortedByROC(input) :
             computeMagicFormulaRankings(input, eyOrder, rocOrder).result = ranked
        /\ NoMetricTies =>
             \A p \in Reorderings(Indices(input)) :
               LET shuffled == [k \in DOMAIN input |-> input[p[k]]]
               IN  \A eyOrder \in sortedByEarningsYield(shuffled),
                      rocOrder \in sortedByROC(shuffled) :
                     LET r == computeMagicFormulaRankings(shuffled, eyOrder, rocOrder)
                         out == [k \in DOMAIN r.result |-> p[r.result[k]]]
                     IN  /\ \A k \in DOMAIN shuffled : r.objects[k] = metrics[p[k]]
                         /\ Range(out) = Range(ranked)
                         /\ \A a, b \in DOMAIN ranked :
                              (a < b /\ metrics[ranked[a]].combinedRank
                                          # metrics[ranked[b]].combinedRank)
                                => PlaceIn(out, ranked[a]) < PlaceIn(out, ranked[b])

\* two entries without a tie on either metric, tied on combinedRank: the
\* reversed input would return them in the other order with the same ranks
TiedOnCombinedRankOnly ==
  /\ rpc = "done"
  /\ ranked = <<1, 2>>
  /\ IsNum(metrics[1].earningsYield) /\ IsNum(metrics[2].earningsYield)
  /\ IsNum(metrics[1].returnOnCapital) /\ IsNum(metrics[2].returnOnCapital)
  /\ metrics[1].earningsYield # metrics[2].earningsYield
  /\ metrics[1].returnOnCapital # metrics[2].returnOnCapital
  /\ metrics[1].combinedRank = metrics[2].combinedRank

\* C22: rank has no side effects: after the call every input entry has the
\* fields and values it had before the call, none of them carrying a rank
\* (0 stands for a rank field that is not set).
RankLeavesInputEntriesUntouched ==
  rpc = "done" =>
    \A i \in DOMAIN metrics :
      /\ metrics[i].eyRank = 0
      /\ metrics[i].rocRank = 0
      /\ metrics[i].combinedRank = 0

BuyRunsNotMutuallyExcluded ==
  LET RECURSIVE Cost(_)
      Cost(sent) ==
        IF sent = <<>> THEN 0
        ELSE Val(Head(sent).qty) * Val(Head(sent).price) + Cost(Tail(sent))
  IN  /\ (bpc = "idle" /\ Len(holdings[BuyDb]) < MaxBuyRows) => ENABLED BuyStart
      /\ orders["buy"] # <<>> => Cost(orders["buy"]) <= budget.availableCash
      /\ other.orders # <<>> => Cost(other.orders) <= other.budget.availableCash

\* both runs have read the same snapshot and their orders together cost
\* more than its cash
DoubleSpending ==
  /\ budget # <<>>
  /\ other.budget = budget
  /\ orders["buy"] # <<>> /\ other.orders # <<>>
  /\ \A k \in DOMAIN orders["buy"] : orders["buy"][k].status = "accepted"
  /\ \A k \in DOMAIN other.orders : other.orders[k].status = "accepted"
  /\ Val(orders["buy"][1].qty) * Val(orders["buy"][1].price)
       + Val(other.orders[1].qty) * Val(other.orders[1].price)
     > budget.availableCash

\* C26: a ledger write that fails after the order was accepted is not
\* fatal: the order stays accepted, the holdings stay as they were (no row
\* after a buy, the row still active after a sell), the symbols that are
\* left are kept, and the loop goes on; an accepted order is never undone
\* while its run lasts.
FailedLedgerWriteIsNotFatal ==
  [][/\ (bpc = "insert" /\ bpc' # "insert" /\ holdings' = holdings) =>
          /\ bpc' = "email"
          /\ orders' = orders
          /\ orders["buy"][Len(orders["buy"])].status = "accepted"
          /\ topStocks' = topStocks
     /\ (spc = "update" /\ spc' = "skip") =>
          /\ holdings' = holdings
          /\ log'["sell"] = "Failed to place sell order"
          /\ orders' = orders
          /\ orders["sell"][Len(orders["sell"])].status = "accepted"
          /\ positions' = positions
     /\ \A job \in Jobs : \A k \in DOMAIN orders[job] :
          (orders[job][k].status = "accepted" /\ orders'[job] # <<>>)
            => (k \in DOMAIN orders'[job] /\ orders'[job][k] = orders[job][k])
    ]_vars

\* the sell order was accepted, the update of the holdings failed and was
\* logged, the row is still active, and another position is still to come
SoldAtBrokerStillActiveInLedger ==
  /\ spc = "skip"
  /\ log["sell"] = "Failed to place sell order"
  /\ orders["sell"] # <<>>
  /\ orders["sell"][Len(orders["sell"])].status = "accepted"
  /\ orders["sell"][Len(orders["sell"])].symbol = pos.symbol
  /\ \E k \in DOMAIN holdings[SellDb] :
       /\ holdings[SellDb][k].symbol = pos.symbol
       /\ holdings[SellDb][k].status = "active"
  /\ Len(positions) = 2

\* C27: a notification that cannot be sent never blocks or aborts the
\* cycle: the step that sends it, whether it succeeds or fails, leaves the
\* orders and the holdings as they are and goes on to the symbols left.
NotifierFailureIsHarmless ==
  [][/\ (bpc = "email" /\ bpc' # "email") =>
          /\ bpc' = "loop"
          /\ topStocks' = Tail(topStocks)
          /\ orders' = orders
          /\ holdings' = holdings
     /\ (spc = "email" /\ spc' # "email") =>
          /\ spc' = "loop"
          /\ positions' = Tail(positions)
          /\ orders' = orders
          /\ holdings' = holdings
    ]_vars

\* the first stock was bought and recorded, its e-mail was not sent, and
\* the loop is at the second stock
BoughtRecordedNotNotified ==
  /\ bpc = "loop"
  /\ Len(orders["buy"]) = 1
  /\ orders["buy"][1].status = "accepted"
  /\ emails["buy"] = <<>>
  /\ \E k \in DOMAIN holdings[BuyDb] :
       holdings[BuyDb][k].symbol = orders["buy"][1].symbol
  /\ Len(topStocks) = 1
  /\ topStocks[1] # orders["buy"][1].symbol

(***************************************************************************)
(* Further properties of the sell cycle (SpecSell)                         *)
(***************************************************************************)
\* C28: a position whose current price, entry price or quantity is not a
\* number, zero or negative is skipped where it is read: no sell/hold
\* decision is taken on it and no sell order is submitted for it.
InvalidPositionIsSkipped ==
  LET Invalid(v) == ~IsNum(v) \/ Val(v) <= 0
  IN  (pos # <<>> /\ (\/ Invalid(pos.currentPrice)
                      \/ Invalid(pos.entryPrice)
                      \/ Invalid(pos.qty))) =>
        /\ spc \notin {"decided", "order", "update", "email"}
        /\ decision = <<>>
        /\ \A k \in DOMAIN orders["sell"] : orders["sell"][k].symbol # pos.symbol

\* C30: after the sell order of a symbol was accepted and the update of the
\* holdings succeeded no row of the symbol is active: every active lot is
\* marked sold, also a lot acquired later than the evaluated one; nothing
\* else in the table changes.
UpdateMarksEveryActiveLotSold ==
  [][(spc = "update" /\ spc' = "email") =>
       LET before == holdings[SellDb]
           after  == holdings'[SellDb]
       IN  /\ orders["sell"][Len(orders["sell"])].status = "accepted"
           /\ DOMAIN after = DOMAIN before
           /\ \A i \in DOMAIN after :
                /\ after[i].symbol = before[i].symbol
                /\ after[i].quantity = before[i].quantity
                /\ after[i].acquisition_date = before[i].acquisition_date
                /\ after[i].symbol = pos.symbol => after[i].status = "sold"
                /\ after[i].symbol # pos.symbol => after[i] = before[i]
    ]_vars

\* one update has marked two lots of the sold symbol, the later of which
\* had not been held long enough to be sold itself
LaterLotMarkedSoldToo ==
  /\ spc = "email"
  /\ Len(orders["sell"]) = 1
  /\ \E i, j \in DOMAIN holdings[SellDb] :
       LET early == holdings[SellDb][i]
           late  == holdings[SellDb][j]
       IN  /\ early.symbol = pos.symbol /\ late.symbol = pos.symbol
           /\ early.status = "sold" /\ late.status = "sold"
           /\ early.updates = 1 /\ late.updates = 1
           /\ parseDate(early.acquisition_date) = decision.acquisitionDate
           /\ parseDate(late.acquisition_date) > decision.acquisitionDate
           /\ ~shouldSell(pos.isProfitable,
                          holdingDuration(decision.today,
                                          parseDate(late.acquisition_date)),
                          env)

(***************************************************************************)
(* Further properties of the two cycles together (Spec)                    *)
(***************************************************************************)
\* C29: the buy cycle, the sell cycle and the server work on one and the
\* same holdings table: every active row a confirmed buy has inserted is in
\* the table the sell cycle looks up, where the lookup for its symbol finds
\* a date, and in the table the server lists.
OneHoldingsLedger ==
  \A k \in DOMAIN holdings[BuyDb] :
    LET row == holdings[BuyDb][k]
    IN  row.status = "active" =>
          /\ \E i \in DOMAIN holdings[SellDb] : holdings[SellDb][i] = row
          /\ \E i \in DOMAIN holdings[ServerDb] : holdings[ServerDb][i] = row

=============================================================================
